---------------------------- MODULE Spec2Model ----------------------------
(***************************************************************************)
(* Model of app.js: an Express application serving a read-only in-memory   *)
(* array of Airbnb listings (airbnb_json) through fourteen routes.         *)
(*                                                                         *)
(* JavaScript values are tagged records (field t is the typeof tag).       *)
(* Strings are sequences of one-character strings, so that trim, escape,   *)
(* toLowerCase, includes, replace, parseFloat and the validators are       *)
(* computed character by character as the runtime computes them.  Numbers  *)
(* are decimal rationals num/den (den a power of ten) or NaN; the inputs   *)
(* of the model are short decimals, for which IEEE-754 comparison agrees   *)
(* with rational comparison.                                               *)
(***************************************************************************)
EXTENDS Integers, Sequences, FiniteSets, TLC

VARIABLES airbnb_json, loaded, request, response, scanned

vars == <<airbnb_json, loaded, request, response, scanned>>

(***************************************************************************)
(* Bounds of the model.                                                    *)
(***************************************************************************)
MaxPriceLen == 3
MaxNameLen == 2
MaxQueryLen == 2
MaxIdCount == 3
MaxGenSize == 22

(***************************************************************************)
(* JavaScript values.                                                      *)
(***************************************************************************)
\* (Every record is built from a constant record with EXCEPT: a constant is
\* evaluated once, before the workers of TLC start, and its copies keep its
\* field order.)
Undefined == [t |-> "undefined"]

EmptyString == [t |-> "string", s |-> <<>>]

Str(s) == [EmptyString EXCEPT !.s = s]

NaN == [t |-> "number", nan |-> TRUE, num |-> 0, den |-> 1]

Num(n, d) == [NaN EXCEPT !.nan = FALSE, !.num = n, !.den = d]

EmptyArray == [t |-> "array", a |-> <<>>]

Arr(a) == [EmptyArray EXCEPT !.a = a]

AnyFunction == [t |-> "function", name |-> <<>>]

Func(name) == [AnyFunction EXCEPT !.name = name]

EmptyObject == [t |-> "object", id |-> Undefined, NAME |-> Undefined, price |-> Undefined]

Obj(id, NAME, price) == [EmptyObject EXCEPT !.id = id, !.NAME = NAME, !.price = price]

IsStr(v) == v.t = "string"

\* ToBoolean for the values the model uses
Truthy(v) ==
  CASE v.t = "undefined" -> FALSE
    [] v.t = "string" -> Len(v.s) > 0
    [] v.t = "number" -> ~v.nan /\ v.num # 0
    [] OTHER -> TRUE

\* number <= number; every comparison with NaN is false
NumLeq(a, b) == ~a.nan /\ ~b.nan /\ a.num * b.den <= b.num * a.den

(***************************************************************************)
(* Strings.                                                                *)
(***************************************************************************)
Digits == <<"0", "1", "2", "3", "4", "5", "6", "7", "8", "9">>

IsDigit(c) == \E i \in 1..10 : Digits[i] = c

DigitVal(c) == (CHOOSE i \in 1..10 : Digits[i] = c) - 1

WhiteSpace == {" ", "\t", "\n", "\r"}

UpperLetters == <<"A", "B", "C", "D", "E", "F", "G", "H", "I", "J", "K", "L", "M",
                  "N", "O", "P", "Q", "R", "S", "T", "U", "V", "W", "X", "Y", "Z">>

LowerLetters == <<"a", "b", "c", "d", "e", "f", "g", "h", "i", "j", "k", "l", "m",
                  "n", "o", "p", "q", "r", "s", "t", "u", "v", "w", "x", "y", "z">>

LowerChar(c) ==
  IF \E i \in 1..26 : UpperLetters[i] = c
  THEN LowerLetters[CHOOSE i \in 1..26 : UpperLetters[i] = c]
  ELSE c

\* String.prototype.toLowerCase
toLowerCase(s) == [i \in 1..Len(s) |-> LowerChar(s[i])]

RECURSIVE LeadingWs(_)
LeadingWs(s) ==
  IF s # <<>> /\ Head(s) \in WhiteSpace THEN 1 + LeadingWs(Tail(s)) ELSE 0

RECURSIVE TrailingWs(_)
TrailingWs(s) ==
  IF s # <<>> /\ s[Len(s)] \in WhiteSpace
  THEN 1 + TrailingWs(SubSeq(s, 1, Len(s) - 1))
  ELSE 0

\* String.prototype.trim, and the trim() sanitizer with its default characters
trim(s) ==
  IF LeadingWs(s) = Len(s) THEN <<>>
  ELSE SubSeq(s, LeadingWs(s) + 1, Len(s) - TrailingWs(s))

\* the entity the escape() sanitizer writes for one character (the grave
\* accent, U+0060, is written GRAVE)
EscapeChar(c) ==
  CASE c = "&" -> <<"&", "a", "m", "p", ";">>
    [] c = "\"" -> <<"&", "q", "u", "o", "t", ";">>
    [] c = "'" -> <<"&", "#", "x", "2", "7", ";">>
    [] c = "<" -> <<"&", "l", "t", ";">>
    [] c = ">" -> <<"&", "g", "t", ";">>
    [] c = "/" -> <<"&", "#", "x", "2", "F", ";">>
    [] c = "\\" -> <<"&", "#", "x", "5", "C", ";">>
    [] c = "GRAVE" -> <<"&", "#", "9", "6", ";">>
    [] OTHER -> <<c>>

RECURSIVE escape(_)
escape(s) == IF s = <<>> THEN <<>> ELSE EscapeChar(Head(s)) \o escape(Tail(s))

\* String.prototype.includes
includes(s, sub) ==
  \E k \in 0..(Len(s) - Len(sub)) : SubSeq(s, k + 1, k + Len(sub)) = sub

\* String.prototype.replace(pattern, "") with a string pattern of one
\* character: only the first occurrence is removed
replaceFirst(s, c) ==
  IF \E i \in 1..Len(s) : s[i] = c
  THEN LET i == CHOOSE j \in 1..Len(s) : s[j] = c /\ \A k \in 1..(j - 1) : s[k] # c
       IN SubSeq(s, 1, i - 1) \o SubSeq(s, i + 1, Len(s))
  ELSE s

RECURSIVE DigitPrefixLen(_)
DigitPrefixLen(s) ==
  IF s # <<>> /\ IsDigit(Head(s)) THEN 1 + DigitPrefixLen(Tail(s)) ELSE 0

RECURSIVE DigitsToNat(_)
DigitsToNat(s) ==
  IF s = <<>> THEN 0
  ELSE 10 * DigitsToNat(SubSeq(s, 1, Len(s) - 1)) + DigitVal(s[Len(s)])

RECURSIVE Pow10(_)
Pow10(k) == IF k = 0 THEN 1 ELSE 10 * Pow10(k - 1)

RECURSIVE Reduce(_, _)
Reduce(n, d) == IF d > 1 /\ n % 10 = 0 THEN Reduce(n \div 10, d \div 10) ELSE Num(n, d)

\* parseFloat: skips leading white space, reads an optional sign, then the
\* longest prefix  digits [. digits]  and ignores whatever follows; NaN when
\* that prefix holds no digit.  (Exponents and Infinity need the letters
\* e and I, which no string of the model contains.)
parseFloat(s) ==
  LET t == SubSeq(s, LeadingWs(s) + 1, Len(s))
      signed == t # <<>> /\ Head(t) \in {"+", "-"}
      sign == IF signed /\ Head(t) = "-" THEN -1 ELSE 1
      u == IF signed THEN Tail(t) ELSE t
      ni == DigitPrefixLen(u)
      afterInt == SubSeq(u, ni + 1, Len(u))
      hasDot == afterInt # <<>> /\ Head(afterInt) = "."
      nf == IF hasDot THEN DigitPrefixLen(Tail(afterInt)) ELSE 0
      intPart == SubSeq(u, 1, ni)
      fracPart == SubSeq(u, ni + 2, ni + 1 + nf)
  IN IF ni + nf = 0 THEN NaN
     ELSE Reduce(sign * (DigitsToNat(intPart) * Pow10(nf) + DigitsToNat(fracPart)),
                 Pow10(nf))

AllDigits(s) == \A i \in 1..Len(s) : IsDigit(s[i])

\* validator.js isNumeric: /^[+-]?([0-9]*[.])?[0-9]+$/
isNumeric(s) ==
  LET u == IF s # <<>> /\ Head(s) \in {"+", "-"} THEN Tail(s) ELSE s
      ni == DigitPrefixLen(u)
      rest == SubSeq(u, ni + 1, Len(u))
  IN \/ u # <<>> /\ AllDigits(u)
     \/ /\ rest # <<>> /\ Head(rest) = "."
        /\ Len(rest) > 1 /\ AllDigits(Tail(rest))

\* toString of express-validator on a field value: a missing field reads as
\* the empty string
FieldString(v) == IF IsStr(v) THEN v.s ELSE <<>>

(***************************************************************************)
(* Array operations.                                                       *)
(***************************************************************************)
Min(a, b) == IF a < b THEN a ELSE b

\* slice with the end index taken as inclusive
slice_inclusive(arr, start, end) ==
  LET final == Min(end + 1, Len(arr))
      count == IF final > start THEN final - start ELSE 0
  IN [k \in 1..count |-> arr[start + k]]

\* Array.prototype.slice(start, end) for 0 <= start: end is clamped to the
\* length and a new array is built; the receiver is left alone
slice(arr, start, end) ==
  LET final == Min(end, Len(arr))
      count == IF final > start THEN final - start ELSE 0
  IN [k \in 1..count |-> arr[start + k]]

\* an array index as a property key: the canonical decimal form of an integer
IsArrayIndex(key) ==
  key # <<>> /\ AllDigits(key) /\ (Len(key) = 1 \/ key[1] # "0")

\* properties every array inherits from Array.prototype and Object.prototype
\* (those the model can ask for)
PrototypeProps ==
  {<<"m", "a", "p">>, <<"p", "u", "s", "h">>,
   <<"c", "o", "n", "s", "t", "r", "u", "c", "t", "o", "r">>}

\* airbnb_json[key] with a string key (property access, not a bounds-checked
\* index)
GetProperty(arr, key) ==
  IF IsArrayIndex(key)
  THEN IF DigitsToNat(key) < Len(arr) THEN arr[DigitsToNat(key) + 1] ELSE Undefined
  ELSE IF key = <<"l", "e", "n", "g", "t", "h">> THEN Num(Len(arr), 1)
  ELSE IF key \in PrototypeProps THEN Func(key)
  ELSE Undefined

\* the last element, in order, whose id is strictly equal to id
RECURSIVE find_last(_, _)
find_last(arr, id) ==
  IF arr = <<>> THEN Undefined
  ELSE IF arr[Len(arr)].id = id THEN arr[Len(arr)]
  ELSE find_last(SubSeq(arr, 1, Len(arr) - 1), id)

\* airbnb_json.find((item) => item.id === id): the first element, in order,
\* whose id is strictly equal (same type, same value) to id
RECURSIVE find(_, _)
find(arr, id) ==
  IF arr = <<>> THEN Undefined
  ELSE IF Head(arr).id = id THEN Head(arr)
  ELSE find(Tail(arr), id)

\* the callback of the name filter
NameMatches(item, searchName) ==
  Truthy(item.NAME) /\ includes(toLowerCase(item.NAME.s), searchName)

RECURSIVE filterByName(_, _)
filterByName(arr, searchName) ==
  IF arr = <<>> THEN <<>>
  ELSE (IF NameMatches(Head(arr), searchName) THEN <<Head(arr)>> ELSE <<>>)
       \o filterByName(Tail(arr), searchName)

\* the price the callback of the price filter computes for one item
ItemPrice(item) == parseFloat(trim(replaceFirst(item.price.s, "$")))

\* the callback of the price filter
PriceMatches(item, min, max) ==
  NumLeq(min, ItemPrice(item)) /\ NumLeq(ItemPrice(item), max)

\* item.price.replace is a TypeError when price is not a string
PriceThrows(item) == ~IsStr(item.price)

Thrown == [t |-> "thrown", error |-> "TypeError"]

\* airbnb_json.filter(price callback): Thrown when the callback throws on
\* some item, else the array of the items it accepts
RECURSIVE filterByPrice(_, _, _)
filterByPrice(arr, min, max) ==
  IF arr = <<>> THEN Arr(<<>>)
  ELSE IF PriceThrows(Head(arr)) THEN Thrown
  ELSE LET rest == filterByPrice(Tail(arr), min, max)
       IN IF rest = Thrown THEN Thrown
          ELSE IF PriceMatches(Head(arr), min, max)
               THEN Arr(<<Head(arr)>> \o rest.a)
               ELSE rest

(***************************************************************************)
(* Validation chains (express-validator).  The validators of a chain run   *)
(* in declaration order on the current value and each failure adds one     *)
(* error; the sanitizers trim and escape come last in every chain, so      *)
(* every validator sees the raw field.                                     *)
(***************************************************************************)
NoFieldError == [path |-> "", msg |-> ""]

FieldError(path, msg) == [NoFieldError EXCEPT !.path = path, !.msg = msg]

\* .notEmpty(): the field, as a string, has length 0 (white space counts)
notEmpty(path, v, msg) ==
  IF FieldString(v) = <<>> THEN <<FieldError(path, msg)>> ELSE <<>>

\* .isNumeric()
isNumericCheck(path, v, msg) ==
  IF isNumeric(FieldString(v)) THEN <<>> ELSE <<FieldError(path, msg)>>

\* .trim().escape(): the value the handler reads from req.body
sanitize(v) == IF IsStr(v) THEN Str(escape(trim(v.s))) ELSE v

ValidateId(property_id) ==
  notEmpty("property_id", property_id, "Property ID is required")
  \o isNumericCheck("property_id", property_id, "Property ID must be a number")

ValidateName(name) == notEmpty("name", name, "Property name is required")

ValidatePrice(minPrice, maxPrice) ==
  notEmpty("minPrice", minPrice, "Minimum price is required")
  \o isNumericCheck("minPrice", minPrice, "Minimum price must be a number")
  \o notEmpty("maxPrice", maxPrice, "Maximum price is required")
  \o isNumericCheck("maxPrice", maxPrice, "Maximum price must be a number")

(***************************************************************************)
(* Responses.                                                              *)
(***************************************************************************)
\* a string built from a literal or a template literal and its arguments
EmptyText == [t |-> "text", tpl |-> "", args |-> <<>>]

Text(tpl, args) == [EmptyText EXCEPT !.tpl = tpl, !.args = args]

\* no response yet: kind, status, view or body, and the locals a view may be
\* given
NoResponse ==
  [kind |-> "none", status |-> 0, view |-> "", body |-> Undefined,
   title |-> Undefined, record |-> Undefined, message |-> Undefined,
   listings |-> Undefined, matchedProperties |-> Undefined,
   query |-> Undefined, errors |-> Undefined]

Response(kind, status, view, body, title) ==
  [NoResponse EXCEPT !.kind = kind, !.status = status, !.view = view,
                     !.body = body, !.title = title]

\* res.render(view, {title}), and res.status(code).render(view, {title});
\* the other locals are set with EXCEPT
render(status, view, title) == Response("render", status, view, Undefined, title)

\* res.send(body)
send(body) == Response("send", 200, "", body, Undefined)

\* an exception thrown by a handler reaches the default error handler of
\* Express: status 500, no view
uncaught(error) == Response("error", 500, "", error, Undefined)

\* what a handler did: its response and whether it ran find or filter
NoOutcome == [res |-> NoResponse, scan |-> FALSE]

Outcome(res, scan) == [NoOutcome EXCEPT !.res = res, !.scan = scan]

(***************************************************************************)
(* Route handlers, as functions of the dataset and the request inputs.     *)
(***************************************************************************)
PreviewCount == 20

usersHandler == Outcome(send("Respond with a resource"), FALSE)

homeHandler ==
  Outcome(render(200, "index", Text("Airbnb Data Viewer", <<>>)), FALSE)

allDataHandler(data) ==
  Outcome([render(200, "allData", Text("First 20 Airbnb Listings", <<>>))
             EXCEPT !.listings = Arr(slice(data, 0, PreviewCount))],
          FALSE)

aboutHandler ==
  Outcome(render(200, "resume", Text("About Me", <<>>)), FALSE)

invoiceByIndexHandler(data, index) ==
  Outcome([render(200, "id_search_result", Text("Property Detail", <<>>))
             EXCEPT !.record = GetProperty(data, index)],
          FALSE)

searchIdFormHandler ==
  Outcome(render(200, "search_id_form", Text("Search by Invoice ID", <<>>)),
          FALSE)

searchIdHandler(data, property_id) ==
  LET errors == ValidateId(property_id)
      id == sanitize(property_id)
      record == find(data, id)
  IN IF errors # <<>>
     THEN Outcome([render(200, "search_id_form", Text("Search by Invoice ID", <<>>))
                     EXCEPT !.errors = Arr(errors)],
                  FALSE)
     ELSE IF ~Truthy(record)
     THEN Outcome([render(200, "id_search_result", Text("Search Result", <<>>))
                     EXCEPT !.message = Text("No property found with that ID", <<>>)],
                  TRUE)
     ELSE Outcome([render(200, "id_search_result", Text("Search Result", <<>>))
                     EXCEPT !.record = record],
                  TRUE)

searchNameFormHandler ==
  Outcome(render(200, "search_name_form", Text("Search by Property Name", <<>>)),
          FALSE)

\* the name handler without the return in front of the render of the form:
\* the filter runs although validation failed
searchNameHandler_noReturn(data, name) ==
  LET errors == ValidateName(name)
      bodyName == sanitize(name)
      searchName == toLowerCase(trim(bodyName.s))
      matchedProperties == filterByName(data, searchName)
  IN IF errors # <<>>
     THEN Outcome([render(200, "search_name_form", Text("Search by Property Name", <<>>))
                     EXCEPT !.errors = Arr(errors)],
                  TRUE)
     ELSE IF Len(matchedProperties) = 0
     THEN Outcome([render(200, "search_name_result", Text("Search Result", <<>>))
                     EXCEPT !.message = Text("No properties found containing \"${name}\"", <<bodyName>>)],
                  TRUE)
     ELSE Outcome([render(200, "search_name_result", Text("Search Results", <<>>))
                     EXCEPT !.matchedProperties = Arr(matchedProperties),
                            !.query = bodyName],
                  TRUE)

searchNameHandler(data, name) ==
  LET errors == ValidateName(name)
      bodyName == sanitize(name)
      searchName == toLowerCase(trim(bodyName.s))
      matchedProperties == filterByName(data, searchName)
  IN IF errors # <<>>
     THEN Outcome([render(200, "search_name_form", Text("Search by Property Name", <<>>))
                     EXCEPT !.errors = Arr(errors)],
                  FALSE)
     ELSE IF Len(matchedProperties) = 0
     THEN Outcome([render(200, "search_name_result", Text("Search Result", <<>>))
                     EXCEPT !.message = Text("No properties found containing \"${name}\"", <<bodyName>>)],
                  TRUE)
     ELSE Outcome([render(200, "search_name_result", Text("Search Results", <<>>))
                     EXCEPT !.matchedProperties = Arr(matchedProperties),
                            !.query = bodyName],
                  TRUE)

viewDataHandler(data) ==
  Outcome([render(200, "viewData", Text("All Airbnb Data", <<>>))
             EXCEPT !.listings = Arr(data)],
          FALSE)

viewDataCleanHandler(data) ==
  Outcome([render(200, "viewData_clean", Text("All Airbnb Data(cleaned)", <<>>))
             EXCEPT !.listings = Arr(data)],
          FALSE)

priceFormHandler ==
  Outcome(render(200, "price_form", Text("Search by Price Range", <<>>)),
          FALSE)

priceHandler(data, minPrice, maxPrice) ==
  LET errors == ValidatePrice(minPrice, maxPrice)
      min == parseFloat(sanitize(minPrice).s)
      max == parseFloat(sanitize(maxPrice).s)
      filteredListings == filterByPrice(data, min, max)
  IN IF errors # <<>>
     THEN Outcome([render(200, "price_form", Text("Search by Price Range", <<>>))
                     EXCEPT !.errors = Arr(errors)],
                  FALSE)
     ELSE IF filteredListings = Thrown
     THEN Outcome(uncaught(Thrown), TRUE)
     ELSE IF Len(filteredListings.a) = 0
     THEN Outcome([render(200, "price_result", Text("Search Result", <<>>))
                     EXCEPT !.message = Text("No listings found between $${min} and $${max}", <<min, max>>)],
                  TRUE)
     ELSE Outcome([render(200, "price_result", Text("Listings between $${min} and $${max}", <<min, max>>))
                     EXCEPT !.listings = filteredListings],
                  TRUE)

wrongRouteHandler ==
  Outcome([render(404, "error", Text("Error", <<>>))
             EXCEPT !.message = Text("Wrong Route", <<>>)],
          FALSE)

(***************************************************************************)
(* Inputs: datasets the JSON file may hold, and request inputs.            *)
(***************************************************************************)
Strings(alphabet, n) == UNION {[1..k -> alphabet] : k \in 0..n}

PriceAlphabet == {"$", "1", "2", ",", " "}

NameAlphabet == {"a", "A", "b", "'", " "}

PriceValues == {Undefined} \cup {Str(s) : s \in Strings(PriceAlphabet, MaxPriceLen)}

NameValues == {Undefined} \cup {Str(s) : s \in Strings(NameAlphabet, MaxNameLen)}

\* ids as the file may spell them; the last one is a JSON number
IdValues == {Str(<<"1">>), Str(<<"2">>), Str(<<"0", "1">>), Num(1, 1)}

RECURSIVE NatToDigits(_)
NatToDigits(n) ==
  IF n < 10 THEN <<Digits[n + 1]>>
  ELSE NatToDigits(n \div 10) \o <<Digits[(n % 10) + 1]>>

\* the listing that stands at position i (from 1) when nothing else is said
Plain(i) ==
  Obj(Str(NatToDigits(i)), Str(<<"a">> \o NatToDigits(i)), Str(<<"$">> \o NatToDigits(i)))

\* three listings, the middle one with any price field
PriceDatasets == {<<Plain(1), [Plain(2) EXCEPT !.price = p], Plain(3)>> : p \in PriceValues}

\* three listings, the middle one with any NAME field
NameDatasets ==
  {<<[Plain(1) EXCEPT !.NAME = Str(<<"a", "b">>)],
     [Plain(2) EXCEPT !.NAME = n],
     [Plain(3) EXCEPT !.NAME = Str(<<"B", "'", "a">>)]>> : n \in NameValues}

\* up to MaxIdCount listings with any ids, duplicates included
IdDatasets ==
  UNION {{[i \in 1..k |-> [Plain(i) EXCEPT !.id = ids[i]]] : ids \in [1..k -> IdValues]}
         : k \in 0..MaxIdCount}

\* datasets of every size up to MaxGenSize
GenDatasets == {[i \in 1..n |-> Plain(i)] : n \in 0..MaxGenSize}

Datasets == PriceDatasets \cup NameDatasets \cup IdDatasets \cup GenDatasets

\* what a numeric form field may carry (Undefined: the field is missing)
NumericInputs ==
  {Undefined, Str(<<>>), Str(<<" ">>), Str(<<"x">>), Str(<<"1">>), Str(<<"2">>),
   Str(<<"0", "1">>), Str(<<"1", "2">>), Str(<<"1", ".", "5">>), Str(<<"-", "1">>)}

NameInputs == {Undefined} \cup {Str(s) : s \in Strings(NameAlphabet, MaxQueryLen)}

\* the :index path parameter: one non-empty path segment
IndexParams ==
  {<<"0">>, <<"1">>, <<"2">>, <<"3">>, <<"0", "1">>, <<"1", "9">>, <<"2", "0">>,
   <<"2", "1">>, <<"9", "9">>, <<"-", "1">>, <<"1", ".", "5">>, <<"x">>,
   <<"l", "e", "n", "g", "t", "h">>, <<"m", "a", "p">>}

UnmatchedRequests == {"GET /nope", "POST /allData", "DELETE /users", "GET /allData/invoiceID/"}

\* a request: its route and the inputs the handlers read (set with EXCEPT)
NoRequest ==
  [route |-> "none", index |-> Undefined, property_id |-> Undefined,
   name |-> Undefined, minPrice |-> Undefined, maxPrice |-> Undefined]

Req(route) == [NoRequest EXCEPT !.route = route]

(***************************************************************************)
(* The state machine: one action per route.                                *)
(***************************************************************************)
Init ==
  /\ airbnb_json \in Datasets
  /\ loaded = airbnb_json
  /\ request = NoRequest
  /\ response = NoResponse
  /\ scanned = FALSE

\* a handler runs on a request that has arrived while no other is being
\* served (request handling is single-threaded and synchronous)
Respond(req, out) ==
  /\ request.route = "none"
  /\ request' = req
  /\ response' = out.res
  /\ scanned' = out.scan
  /\ UNCHANGED <<airbnb_json, loaded>>

GetUsers == Respond(Req("GET /users"), usersHandler)

GetHome == Respond(Req("GET /"), homeHandler)

\* the preview taken with splice(0, 20), which removes the listings it
\* returns from airbnb_json
GetAllData_splice ==
  /\ request.route = "none"
  /\ request' = Req("GET /allData")
  /\ response' = allDataHandler(airbnb_json).res
  /\ scanned' = FALSE
  /\ airbnb_json' = SubSeq(airbnb_json, Min(PreviewCount, Len(airbnb_json)) + 1,
                           Len(airbnb_json))
  /\ UNCHANGED loaded

GetAllData == Respond(Req("GET /allData"), allDataHandler(airbnb_json))

GetAbout == Respond(Req("GET /about"), aboutHandler)

GetInvoiceByIndex ==
  \E index \in IndexParams :
    Respond([Req("GET /allData/invoiceID/:index") EXCEPT !.index = Str(index)],
            invoiceByIndexHandler(airbnb_json, index))

GetSearchIdForm == Respond(Req("GET /search/invoiceID"), searchIdFormHandler)

PostSearchId ==
  \E property_id \in NumericInputs :
    Respond([Req("POST /search/invoiceID") EXCEPT !.property_id = property_id],
            searchIdHandler(airbnb_json, property_id))

GetSearchNameForm == Respond(Req("GET /search/name"), searchNameFormHandler)

PostSearchName ==
  \E name \in NameInputs :
    Respond([Req("POST /search/name") EXCEPT !.name = name],
            searchNameHandler(airbnb_json, name))

GetViewData == Respond(Req("GET /viewData"), viewDataHandler(airbnb_json))

GetViewDataClean ==
  Respond(Req("GET /viewData/clean/"), viewDataCleanHandler(airbnb_json))

GetPriceForm == Respond(Req("GET /viewData/price"), priceFormHandler)

PostPrice ==
  \E minPrice \in NumericInputs, maxPrice \in NumericInputs :
    Respond([Req("POST /viewData/price") EXCEPT !.minPrice = minPrice,
                                              !.maxPrice = maxPrice],
            priceHandler(airbnb_json, minPrice, maxPrice))

WrongRoute ==
  \E r \in UnmatchedRequests : Respond(Req(r), wrongRouteHandler)

\* the response has been written; the server waits for the next request
\* with nothing but airbnb_json kept
ResponseSent ==
  /\ request.route # "none"
  /\ request' = NoRequest
  /\ response' = NoResponse
  /\ scanned' = FALSE
  /\ UNCHANGED <<airbnb_json, loaded>>

Next ==
  \/ GetUsers
  \/ GetHome
  \/ GetAllData
  \/ GetAbout
  \/ GetInvoiceByIndex
  \/ GetSearchIdForm
  \/ PostSearchId
  \/ GetSearchNameForm
  \/ PostSearchName
  \/ GetViewData
  \/ GetViewDataClean
  \/ GetPriceForm
  \/ PostPrice
  \/ WrongRoute
  \/ ResponseSent

Spec == Init /\ [][Next]_vars

(***************************************************************************)
(* Properties.                                                             *)
(***************************************************************************)
\* an array local of the view payload read as a list: a local that was not
\* passed is the empty list
ListOf(v) == IF v.t = "array" THEN v.a ELSE <<>>

\* the number a price field spells: the field, less its currency symbol and
\* surrounding white space, is as a whole a decimal numeral; NaN otherwise
PriceNumber(v) ==
  IF IsStr(v) /\ isNumeric(trim(replaceFirst(v.s, "$")))
  THEN parseFloat(trim(replaceFirst(v.s, "$")))
  ELSE NaN

PriceRequestValid ==
  /\ request.route = "POST /viewData/price"
  /\ ValidatePrice(request.minPrice, request.maxPrice) = <<>>

\* C1: whenever POST /viewData/price renders price_result for bounds
\* min <= max, the listings it passes are exactly the listings of the dataset
\* whose price field spells a number p with min <= p <= max, in dataset order.
C1_PriceRangeExact ==
  (/\ PriceRequestValid
   /\ response.kind = "render"
   /\ NumLeq(parseFloat(request.minPrice.s), parseFloat(request.maxPrice.s)))
  => LET InRange(item) ==
           /\ NumLeq(parseFloat(request.minPrice.s), PriceNumber(item.price))
           /\ NumLeq(PriceNumber(item.price), parseFloat(request.maxPrice.s))
     IN /\ response.view = "price_result"
        /\ ListOf(response.listings) = SelectSeq(loaded, InRange)

NameRequestValid ==
  /\ request.route = "POST /search/name"
  /\ ValidateName(request.name) = <<>>

\* C2: whenever POST /search/name passes validation, the matched listings are
\* exactly the listings with a non-empty name that contains the query (less
\* its surrounding white space) as a case-insensitive substring, in dataset
\* order.
C2_NameMatchExact ==
  NameRequestValid
  => LET Contains(item) ==
           /\ IsStr(item.NAME)
           /\ item.NAME.s # <<>>
           /\ includes(toLowerCase(item.NAME.s), toLowerCase(trim(request.name.s)))
     IN /\ response.view = "search_name_result"
        /\ ListOf(response.matchedProperties) = SelectSeq(loaded, Contains)

IdRequestValid ==
  /\ request.route = "POST /search/invoiceID"
  /\ ValidateId(request.property_id) = <<>>

\* positions (from 1) of the listings whose id is the string v
IdPositions(v) == {i \in 1..Len(loaded) : loaded[i].id = v}

\* C3: whenever POST /search/invoiceID passes validation, it renders the first
\* listing in dataset order whose id is the submitted string (same type, same
\* characters), and it renders the not-found message exactly when no listing
\* has that id.
C3_FirstExactId ==
  IdRequestValid
  => /\ response.kind = "render"
     /\ response.view = "id_search_result"
     /\ IF IdPositions(request.property_id) = {}
        THEN /\ response.record = Undefined
             /\ response.message = Text("No property found with that ID", <<>>)
        ELSE /\ \E i \in IdPositions(request.property_id) :
                  /\ \A j \in IdPositions(request.property_id) : i <= j
                  /\ response.record = loaded[i]
             /\ response.message = Undefined

\* a validated id is looked up in a dataset where two listings carry it, and
\* the first of them is rendered
C3_Witness ==
  /\ IdRequestValid
  /\ Cardinality(IdPositions(request.property_id)) >= 2
  /\ \E i \in IdPositions(request.property_id) :
       i > 1 /\ response.record = loaded[1] /\ loaded[i] # loaded[1]

IndexRequest == request.route = "GET /allData/invoiceID/:index"

\* C4: GET /allData/invoiceID/:index hands the view the listing at position i
\* when the parameter is the integer i in [0, size), and the absent result for
\* every other parameter (a decimal spelling with leading zeros is left open).
C4_IndexOrAbsent ==
  IndexRequest
  => IF IsArrayIndex(request.index.s)
     THEN IF DigitsToNat(request.index.s) < Len(loaded)
          THEN response.record = loaded[DigitsToNat(request.index.s) + 1]
          ELSE response.record = Undefined
     ELSE AllDigits(request.index.s) \/ response.record = Undefined

\* C5: GET /allData passes min(20, size) listings, the first ones of the
\* dataset loaded at startup in their order, on every request.
C5_PreviewSlice ==
  request.route = "GET /allData"
  => /\ response.kind = "render"
     /\ response.view = "allData"
     /\ response.listings.t = "array"
     /\ Len(response.listings.a) = (IF Len(loaded) < 20 THEN Len(loaded) ELSE 20)
     /\ \A i \in 1..Len(response.listings.a) : response.listings.a[i] = loaded[i]

\* the preview of a dataset of more than 20 listings holds 20 of them
C5_Witness ==
  /\ request.route = "GET /allData"
  /\ Len(loaded) > 20
  /\ Len(response.listings.a) = 20

\* the POST routes, each with its form view and the errors of its chain
FormViewOf(route) ==
  CASE route = "POST /search/invoiceID" -> "search_id_form"
    [] route = "POST /search/name" -> "search_name_form"
    [] route = "POST /viewData/price" -> "price_form"

ErrorsOf(req) ==
  CASE req.route = "POST /search/invoiceID" -> ValidateId(req.property_id)
    [] req.route = "POST /search/name" -> ValidateName(req.name)
    [] req.route = "POST /viewData/price" -> ValidatePrice(req.minPrice, req.maxPrice)

PostRoutes == {"POST /search/invoiceID", "POST /search/name", "POST /viewData/price"}

\* C6: on each of the three POST routes, when validation fails no find or
\* filter runs and the response is the form view of the route with the list
\* of field errors, never a result view or an error page.
C6_InvalidNeverScans ==
  (request.route \in PostRoutes /\ ErrorsOf(request) # <<>>)
  => /\ ~scanned
     /\ response.kind = "render"
     /\ response.status = 200
     /\ response.view = FormViewOf(request.route)
     /\ response.errors = Arr(ErrorsOf(request))
     /\ response.record = Undefined
     /\ response.listings = Undefined
     /\ response.matchedProperties = Undefined

\* a price request with a valid minimum and a non-numeric maximum gets the
\* price form back with the errors of the maximum only
C6_Witness ==
  /\ request.route = "POST /viewData/price"
  /\ isNumeric(FieldString(request.minPrice))
  /\ ~isNumeric(FieldString(request.maxPrice))
  /\ response.view = "price_form"
  /\ Len(response.errors.a) >= 1
  /\ \A i \in 1..Len(response.errors.a) : response.errors.a[i].path = "maxPrice"

\* C7: POST /viewData/price with valid bounds always completes with a
\* rendered response, whatever the price fields of the dataset hold, and no
\* listing without a numeric price is in the result.
C7_BadPriceExcluded ==
  PriceRequestValid
  => /\ response.kind = "render"
     /\ \A i \in 1..Len(ListOf(response.listings)) :
          /\ IsStr(response.listings.a[i].price)
          /\ ~ItemPrice(response.listings.a[i]).nan

\* C8: a lookup that finds no record (index out of range, or id with no
\* match) renders a payload with a message and no record, without exception.
C8_NotFoundMessage ==
  (\/ /\ IndexRequest
      /\ IsArrayIndex(request.index.s)
      /\ DigitsToNat(request.index.s) >= Len(loaded)
   \/ /\ IdRequestValid
      /\ IdPositions(request.property_id) = {})
  => /\ response.kind = "render"
     /\ response.record = Undefined
     /\ response.message # Undefined

\* C9: after any sequence of requests the dataset is the one loaded at
\* startup: same listings, same order, same field values.
C9_DatasetImmutable == airbnb_json = loaded

\* a request whose filter callback threw has been served, on a dataset that
\* is not empty
C9_Witness ==
  /\ response.kind = "error"
  /\ scanned
  /\ airbnb_json # <<>>
  /\ airbnb_json = loaded

\* C10: a POST /search/name whose name is empty after trimming is rejected by
\* validation: the form is rendered again and the name filter never runs.
C10_BlankNameRejected ==
  (request.route = "POST /search/name" /\ trim(FieldString(request.name)) = <<>>)
  => /\ ~scanned
     /\ response.view = "search_name_form"

=============================================================================
